---- MODULE Spec2Model ----
(***************************************************************************)
(* Model of the aoc runner: the Solution trait of src/src/aoc/solution.rs  *)
(* (get_input, parse, part1, part2 and the derived runners run, run_par,   *)
(* test_part1, test_part2) and the time! macro of src/src/aoc/macro.rs.    *)
(*                                                                         *)
(* A behaviour fixes one implementation of the trait (the functions parse, *)
(* part1, part2 and the content of the input file) and then performs       *)
(* invocations of the runners one after the other.  An invocation of       *)
(* run_par has three threads: the caller ("main") and the two scoped       *)
(* workers ("w1", "w2"); every other runner has the caller only.           *)
(*                                                                         *)
(* part1 and part2 may return an Option or panic; parse returns Ok or Err  *)
(* and get_input reads the input file.  Under Spec the operating system    *)
(* starts every thread that s.spawn asks for; SpecSpawn adds the spawn     *)
(* that fails.  SpecDisplay formats any SolutionResult, SpecInput reads    *)
(* the input of any DAY, SpecText runs run and run_par on files with       *)
(* whitespace around their text, SpecTime is the test tests::time_macro.   *)
(* SpecMain is the main of solution!, SpecDay01 and SpecDay00 are the two   *)
(* example solutions, SpecRunParFair is run_par under fair scheduling.     *)
(***************************************************************************)
EXTENDS Integers, Sequences, FiniteSets, TLC

\* ---------------------------------------------------------------- bounds
NRaw == 1          \* number of distinct raw input strings
NParsed == 1       \* number of distinct values of Solution::Input
MaxAnswer == 1     \* answers of part1 / part2 are 1..MaxAnswer
MaxTime == 1       \* the monotonic clock runs from 0 to MaxTime

\* ------------------------------------------------------ puzzle identity
TITLE == "Demo"
DAY == 0

\* ---------------------------------------------------------------- values
RawInputs == 1..NRaw
ParsedInputs == 1..NParsed
Answers == 1..MaxAnswer

None == <<"None">>
Some(v) == <<"Some", v>>
Panic == <<"Panic">>
Options == {None} \cup {Some(v) : v \in Answers}

\* what a call of part1 / part2 can do: return an Option or panic
PartOutcomes == Options \cup {Panic}

Ok(v) == <<"Ok", v>>
Err(e) == <<"Err", e>>
IsOk(r) == r[1] = "Ok"
IsErr(r) == r[1] = "Err"

\* what a call of parse returns: Ok(Input) or Err(ParseError)
ParseOutcomes == {Ok(p) : p \in ParsedInputs} \cup {Err("ParseError")}

\* enum SolutionError
SolutionError == {"ParseError", "PuzzleInput", "Run"}

\* content of the file inputs/DAY_NN.txt: <<>> when it cannot be read, else
\* the raw input 1 (the raw inputs are interchangeable; the others reach
\* parse as arguments of test_part1 and test_part2)
FileStates == {<<>>, <<1>>}

Fns == {"run", "run_par", "test_part1", "test_part2"}
Workers == {1, 2}

\* the value of an invocation: none while it runs, none either when a
\* panic of a part unwound it
NotReturned == <<"NotReturned">>
Panicked == <<"Panicked">>
NoWorker == [st |-> "none", input |-> <<>>, start |-> 0, res |-> <<>>,
             joined |-> FALSE]
NoLocals == [input |-> <<>>, parsed |-> <<>>, start |-> 0, parse_time |-> 0,
             p1 |-> <<>>, t1 |-> 0, solve1 |-> <<>>, solve2 |-> <<>>]

VARIABLES
    file,      \* the input file of the puzzle (never written)
    parse,     \* Solution::parse, a function of the raw input
    part1,     \* Solution::part1, a function of the parsed input
    part2,     \* Solution::part2, a function of the parsed input
    now,       \* Instant::now()
    call,      \* the runner being (or last) invoked, "none" at first
    pc,        \* position of the calling thread in that runner
    loc,       \* local variables of the calling thread
    w,         \* the two scoped worker threads of run_par
    log,       \* calls of the trait's functions by the invocation, in order
    ret,       \* what the invocation returned, NotReturned while it runs
    subject,   \* the value handed to a function checked alone, else <<>>
    out        \* the lines written since the invocation began

vars == <<file, parse, part1, part2, now, call, pc, loc, w, log, ret,
          subject, out>>
puzzle == <<file, parse, part1, part2>>
\* the value being formatted and the text written so far
page == <<subject, out>>

\* parse yields p for no raw input: the parts are then never called with p,
\* and Init leaves their value on p, which nothing reads, at None
Unparsed(p) == \A r \in RawInputs : parse[r] # Ok(p)

Init ==
    /\ file \in FileStates
    /\ parse \in [RawInputs -> ParseOutcomes]
    /\ part1 \in [ParsedInputs -> PartOutcomes]
    /\ part2 \in [ParsedInputs -> PartOutcomes]
    /\ \A p \in ParsedInputs : Unparsed(p) => part1[p] = None /\ part2[p] = None
    /\ now = 0
    /\ call = "none"
    /\ pc = "idle"
    /\ loc = NoLocals
    /\ w = [i \in Workers |-> NoWorker]
    /\ log = <<>>
    /\ ret = NotReturned
    /\ subject = <<>>
    /\ out = <<>>

\* ------------------------------------------------------------- the clock
\* a time! is measuring: the calling thread is inside parse or a part, or a
\* worker is inside its part
Measuring ==
    \/ pc \in {"parse_ret", "part1_ret", "part2_ret", "part_ret"}
    \/ \E i \in Workers : w[i].st = "running"

\* the clock advances; the program reads it at the two ends of a time!
\* only, so the time that passes while no time! is measuring is left out
Tick ==
    /\ Measuring
    /\ now < MaxTime
    /\ now' = now + 1
    /\ UNCHANGED <<puzzle, page, call, pc, loc, w, log, ret>>

\* time!: `let start = Instant::now()` and `start.elapsed()`
elapsed(start) == now - start

\* an entry of the log, which records the calls of get_input, parse, part1
\* and part2: the thread, the function, "call" | "ret" | "err" | "panic",
\* the argument of the call or the value that came back, and the time
Ev(t, op, e, v) == <<t, op, e, v, now>>

\* ----------------------------------------------------------------- text
\* str::trim: the text without its leading and trailing whitespace
RECURSIVE trim_start(_)
trim_start(t) ==
    IF t # <<>> /\ Head(t) = " " THEN trim_start(Tail(t)) ELSE t

RECURSIVE trim_end(_)
trim_end(t) ==
    IF t # <<>> /\ t[Len(t)] = " "
    THEN trim_end(SubSeq(t, 1, Len(t) - 1))
    ELSE t

trim(t) == trim_end(trim_start(t))

\* ------------------------------------------------------------ formatting
\* the values of a u8
U8 == 0..255

\* the decimal digits of n, most significant first
RECURSIVE Digits(_)
Digits(n) == IF n < 10 THEN <<n>> ELSE Append(Digits(n \div 10), n % 10)

\* variant: `{}`, the decimal digits without padding
Pad02_plain(n) == Digits(n)

\* `{:02}`: decimal, padded with zeros on the left to a width of at least 2
Pad02(n) == IF n < 10 THEN <<0>> \o Digits(n) ELSE Digits(n)

\* the number that decimal digits stand for
RECURSIVE DigitsValue(_)
DigitsValue(ds) ==
    IF ds = <<>> THEN 0
    ELSE 10 * DigitsValue(SubSeq(ds, 1, Len(ds) - 1)) + ds[Len(ds)]

\* durations are counted in nanoseconds; a microsecond
Micro == 1000

\* humantime::format_duration for a duration below one second: the non-zero
\* amounts of ms, us and ns in this order, "0s" for the zero duration
format_duration(d) ==
    IF d = 0 THEN <<<<0, "s">>>>
    ELSE SelectSeq(<<<<d \div (Micro * Micro), "ms">>,
                     <<(d \div Micro) % Micro, "us">>,
                     <<d % Micro, "ns">>>>,
                   LAMBDA p : p[1] # 0)

\* ----------------------------------------------------------- get_input
\* default get_input: read_to_string(path)?, the io::Error converted by
\* #[from] into SolutionError::PuzzleInput
get_input == IF file = <<>> THEN Err("PuzzleInput") ELSE Ok(file[1])

\* run_par is running, invoked directly or by solution!
InRunPar == call \in {"run_par", "solution"}

\* the invocation ends: the value is handed to the caller, which is the
\* match of solution! when that called run_par and no panic is unwinding
Return(r) ==
    /\ ret' = r
    /\ pc' = IF call = "solution" /\ r # Panicked THEN "match" ELSE "idle"
    /\ loc' = NoLocals

\* ------------------------------------------------------- the invocations
\* a runner is entered: nothing is called, spawned or printed yet; the
\* clock, of which only differences are read, counts from this moment
Invoke(f) ==
    /\ pc = "idle"
    /\ call' = f
    /\ log' = <<>>
    /\ w' = [i \in Workers |-> NoWorker]
    /\ ret' = NotReturned
    /\ now' = 0
    /\ out' = <<>>
    /\ UNCHANGED <<puzzle, subject>>

\* struct SolutionResult
SolutionResult(p1, p2, parse_time, t1, t2) ==
    [title |-> TITLE, day |-> DAY, part1 |-> p1, part2 |-> p2,
     parse_duration |-> parse_time, part1_duration |-> t1,
     part2_duration |-> t2]

\* variant: a failed get_input falls back to a built-in input instead of
\* returning the error
GetInputStep_fallback ==
    /\ pc = "get_input"
    /\ LET r == get_input IN
        /\ log' = log \o <<Ev("main", "get_input", "call", <<>>),
                           Ev("main", "get_input",
                              IF IsOk(r) THEN "ret" ELSE "err", r[2])>>
        /\ pc' = "parse"
        /\ loc' = [loc EXCEPT !.input = IF IsOk(r) THEN r[2]
                                        ELSE CHOOSE x \in RawInputs : TRUE]
        /\ UNCHANGED ret
    /\ UNCHANGED <<puzzle, page, now, call, w>>

\* `let input = Self::get_input()?;` of run and of run_par
GetInputStep ==
    /\ pc = "get_input"
    /\ LET r == get_input IN
        /\ log' = log \o <<Ev("main", "get_input", "call", <<>>),
                           Ev("main", "get_input",
                              IF IsOk(r) THEN "ret" ELSE "err", r[2])>>
        /\ IF IsErr(r)
           THEN Return(r)
           ELSE /\ pc' = "parse"
                /\ loc' = [loc EXCEPT !.input = r[2]]
                /\ UNCHANGED ret
    /\ UNCHANGED <<puzzle, page, now, call, w>>

\* variant: the input is trimmed before parse is called
ParseCallStep_trim ==
    /\ pc = "parse"
    /\ loc' = [loc EXCEPT !.start = now, !.input = trim(loc.input)]
    /\ log' = Append(log, Ev("main", "parse", "call", trim(loc.input)))
    /\ pc' = "parse_ret"
    /\ UNCHANGED <<puzzle, page, now, call, w, ret>>

\* time!(Self::parse(&input)?): the clock is read, parse is entered
ParseCallStep ==
    /\ pc = "parse"
    /\ loc' = [loc EXCEPT !.start = now]
    /\ log' = Append(log, Ev("main", "parse", "call", loc.input))
    /\ pc' = "parse_ret"
    /\ UNCHANGED <<puzzle, page, now, call, w, ret>>

\* time!(Self::parse(&input)?): parse comes back; `?` returns its Err,
\* Ok is timed and bound to (input, parse_time)
ParseRetStep(after) ==
    /\ pc = "parse_ret"
    /\ LET r == parse[loc.input] IN
        IF IsErr(r)
        THEN /\ log' = Append(log, Ev("main", "parse", "err", r[2]))
             /\ Return(r)
        ELSE /\ log' = Append(log, Ev("main", "parse", "ret", r[2]))
             /\ loc' = [loc EXCEPT !.parsed = r[2],
                                   !.parse_time = elapsed(loc.start)]
             /\ pc' = after
             /\ UNCHANGED ret
    /\ UNCHANGED <<puzzle, page, now, call, w>>

\* ------------------------------------------------------------------ run
CallRun ==
    /\ Invoke("run")
    /\ pc' = "get_input"
    /\ loc' = NoLocals

RunGetInput == call = "run" /\ GetInputStep

RunParseCall == call = "run" /\ ParseCallStep

RunParseRet == call = "run" /\ ParseRetStep("part1")

\* variant: part1 is handed a fresh parse of the raw input
RunPart1Call_reparse ==
    /\ call = "run"
    /\ pc = "part1"
    /\ loc' = [loc EXCEPT !.start = now]
    /\ log' = log \o <<Ev("main", "parse", "call", loc.input),
                       Ev("main", "parse", "ret", loc.parsed),
                       Ev("main", "part1", "call", loc.parsed)>>
    /\ pc' = "part1_ret"
    /\ UNCHANGED <<puzzle, page, now, call, w, ret>>

\* time!(Self::part1(&input)): the clock is read, part1 is entered
RunPart1Call ==
    /\ call = "run"
    /\ pc = "part1"
    /\ loc' = [loc EXCEPT !.start = now]
    /\ log' = Append(log, Ev("main", "part1", "call", loc.parsed))
    /\ pc' = "part1_ret"
    /\ UNCHANGED <<puzzle, page, now, call, w, ret>>

\* variant: a panic of part1 is caught and reported as SolutionError::Run
RunPart1Ret_catch ==
    /\ call = "run"
    /\ pc = "part1_ret"
    /\ LET o == part1[loc.parsed] IN
        IF o = Panic
        THEN /\ log' = Append(log, Ev("main", "part1", "panic", <<>>))
             /\ Return(Err("Run"))
        ELSE /\ log' = Append(log, Ev("main", "part1", "ret", o))
             /\ loc' = [loc EXCEPT !.p1 = o, !.t1 = elapsed(loc.start)]
             /\ pc' = "part2"
             /\ UNCHANGED ret
    /\ UNCHANGED <<puzzle, page, now, call, w>>

\* variant: run gives up on part2 when part1 has no answer
RunPart1Ret_skip ==
    /\ call = "run"
    /\ pc = "part1_ret"
    /\ LET o == part1[loc.parsed] IN
        IF o = Panic
        THEN /\ log' = Append(log, Ev("main", "part1", "panic", <<>>))
             /\ Return(Panicked)
        ELSE IF o = None
        THEN /\ log' = Append(log, Ev("main", "part1", "ret", o))
             /\ Return(Ok(SolutionResult(None, None, loc.parse_time,
                                         elapsed(loc.start), 0)))
        ELSE /\ log' = Append(log, Ev("main", "part1", "ret", o))
             /\ loc' = [loc EXCEPT !.p1 = o, !.t1 = elapsed(loc.start)]
             /\ pc' = "part2"
             /\ UNCHANGED ret
    /\ UNCHANGED <<puzzle, page, now, call, w>>

\* part1 comes back: its Option and the elapsed time are bound to (p1, t1),
\* a panic unwinds run
RunPart1Ret ==
    /\ call = "run"
    /\ pc = "part1_ret"
    /\ LET o == part1[loc.parsed] IN
        IF o = Panic
        THEN /\ log' = Append(log, Ev("main", "part1", "panic", <<>>))
             /\ Return(Panicked)
        ELSE /\ log' = Append(log, Ev("main", "part1", "ret", o))
             /\ loc' = [loc EXCEPT !.p1 = o, !.t1 = elapsed(loc.start)]
             /\ pc' = "part2"
             /\ UNCHANGED ret
    /\ UNCHANGED <<puzzle, page, now, call, w>>

\* time!(Self::part2(&input))
RunPart2Call ==
    /\ call = "run"
    /\ pc = "part2"
    /\ loc' = [loc EXCEPT !.start = now]
    /\ log' = Append(log, Ev("main", "part2", "call", loc.parsed))
    /\ pc' = "part2_ret"
    /\ UNCHANGED <<puzzle, page, now, call, w, ret>>

\* variant: the aggregate of run takes both answers from p1
RunPart2Ret_copy ==
    /\ call = "run"
    /\ pc = "part2_ret"
    /\ LET o == part2[loc.parsed] IN
        IF o = Panic
        THEN /\ log' = Append(log, Ev("main", "part2", "panic", <<>>))
             /\ Return(Panicked)
        ELSE /\ log' = Append(log, Ev("main", "part2", "ret", o))
             /\ Return(Ok(SolutionResult(loc.p1, loc.p1, loc.parse_time,
                                         loc.t1, elapsed(loc.start))))
    /\ UNCHANGED <<puzzle, page, now, call, w>>

\* part2 comes back and run returns Ok(SolutionResult { .. })
RunPart2Ret ==
    /\ call = "run"
    /\ pc = "part2_ret"
    /\ LET o == part2[loc.parsed] IN
        IF o = Panic
        THEN /\ log' = Append(log, Ev("main", "part2", "panic", <<>>))
             /\ Return(Panicked)
        ELSE /\ log' = Append(log, Ev("main", "part2", "ret", o))
             /\ Return(Ok(SolutionResult(loc.p1, o, loc.parse_time,
                                         loc.t1, elapsed(loc.start))))
    /\ UNCHANGED <<puzzle, page, now, call, w>>

\* -------------------------------------------------------------- run_par
WName(i) == IF i = 1 THEN "w1" ELSE "w2"

\* a call of Self::part1(&input) or of Self::part2(&input)
Apply(part, input) == IF part = "part1" THEN part1[input] ELSE part2[input]

\* variant: both spawns were given the closure of part1
WorkerPart_copy(i) == "part1"

\* the part a worker runs: |_| time!(Self::part1(&input)) in the first
\* spawn, |_| time!(Self::part2(&input)) in the second
WorkerPart(i) == IF i = 1 THEN "part1" ELSE "part2"

Terminated(i) == w[i].st \in {"done", "panicked"}

CallRunPar ==
    /\ Invoke("run_par")
    /\ pc' = "get_input"
    /\ loc' = NoLocals

ParGetInput == InRunPar /\ GetInputStep

\* variant: the first worker is spawned before parse is called
ParParseCall_eager ==
    /\ InRunPar
    /\ pc = "parse"
    /\ loc' = [loc EXCEPT !.start = now]
    /\ log' = Append(log, Ev("main", "parse", "call", loc.input))
    /\ w' = [w EXCEPT ![1].st = "spawned", ![1].input = 1]
    /\ pc' = "parse_ret"
    /\ UNCHANGED <<puzzle, page, now, call, ret>>

ParParseCall == InRunPar /\ ParseCallStep

ParParseRet == InRunPar /\ ParseRetStep("spawn1")

\* s.spawn(..): the thread exists from here on and borrows `input`
SpawnStep(i, after) ==
    /\ InRunPar
    /\ w[i].st = "none"
    /\ w' = [w EXCEPT ![i].st = "spawned", ![i].input = loc.parsed]
    /\ pc' = after
    /\ UNCHANGED <<puzzle, page, now, call, loc, log, ret>>

\* let solve1 = s.spawn(|_| time!(Self::part1(&input)));
ParSpawn1 == pc = "spawn1" /\ SpawnStep(1, "spawn2")

\* let solve2 = s.spawn(|_| time!(Self::part2(&input)));
ParSpawn2 == pc = "spawn2" /\ SpawnStep(2, "join1")

\* variant: the worker's bracket opens at the origin of the clock rather than
\* at the worker's own entry into its part
WorkerStart_early(i) ==
    /\ w[i].st = "spawned"
    /\ w' = [w EXCEPT ![i].st = "running", ![i].start = 0]
    /\ log' = Append(log, Ev(WName(i), WorkerPart(i), "call", w[i].input))
    /\ UNCHANGED <<puzzle, page, now, call, pc, loc, ret>>

\* a worker starts its closure: time! reads the clock, the part is entered
WorkerStart(i) ==
    /\ w[i].st = "spawned"
    /\ w' = [w EXCEPT ![i].st = "running", ![i].start = now]
    /\ log' = Append(log, Ev(WName(i), WorkerPart(i), "call", w[i].input))
    /\ UNCHANGED <<puzzle, page, now, call, pc, loc, ret>>

\* variant: a worker whose part returned None reports no elapsed time
WorkerFinish_unmeasured(i) ==
    /\ w[i].st = "running"
    /\ LET o == Apply(WorkerPart(i), w[i].input) IN
        IF o = Panic
        THEN /\ w' = [w EXCEPT ![i].st = "panicked"]
             /\ log' = Append(log, Ev(WName(i), WorkerPart(i), "panic", <<>>))
        ELSE /\ w' = [w EXCEPT ![i].st = "done",
                               ![i].res = <<o, IF o = None THEN 0
                                               ELSE elapsed(w[i].start)>>]
             /\ log' = Append(log, Ev(WName(i), WorkerPart(i), "ret", o))
    /\ UNCHANGED <<puzzle, page, now, call, pc, loc, ret>>

\* the part comes back in the worker: the closure yields (result, elapsed),
\* or the panic ends the thread
WorkerFinish(i) ==
    /\ w[i].st = "running"
    /\ LET o == Apply(WorkerPart(i), w[i].input) IN
        IF o = Panic
        THEN /\ w' = [w EXCEPT ![i].st = "panicked"]
             /\ log' = Append(log, Ev(WName(i), WorkerPart(i), "panic", <<>>))
        ELSE /\ w' = [w EXCEPT ![i].st = "done",
                               ![i].res = <<o, elapsed(w[i].start)>>]
             /\ log' = Append(log, Ev(WName(i), WorkerPart(i), "ret", o))
    /\ UNCHANGED <<puzzle, page, now, call, pc, loc, ret>>

\* variant: a join handle hands over the value of the other worker
JoinResult_other(i) ==
    IF w[3 - i].st = "done" THEN Ok(w[3 - i].res) ELSE Err("panic")

\* ScopedJoinHandle::join: blocks until the thread has ended; Ok(value of
\* the closure) or Err(payload of the panic)
JoinResult(i) == IF w[i].st = "done" THEN Ok(w[i].res) ELSE Err("panic")

\* variant: run_par returns as soon as the first worker is seen to have
\* panicked, leaving the second one detached
ParJoin1_failfast ==
    /\ InRunPar
    /\ pc = "join1"
    /\ Terminated(1)
    /\ w' = [w EXCEPT ![1].joined = TRUE]
    /\ IF w[1].st = "panicked"
       THEN Return(Err("Run"))
       ELSE /\ loc' = [loc EXCEPT !.solve1 = JoinResult(1)]
            /\ pc' = "join2"
            /\ UNCHANGED ret
    /\ UNCHANGED <<puzzle, page, now, call, log>>

\* let solve1 = solve1.join();
ParJoin1 ==
    /\ InRunPar
    /\ pc = "join1"
    /\ Terminated(1)
    /\ loc' = [loc EXCEPT !.solve1 = JoinResult(1)]
    /\ w' = [w EXCEPT ![1].joined = TRUE]
    /\ pc' = "join2"
    /\ UNCHANGED <<puzzle, page, now, call, log, ret>>

\* let solve2 = solve2.join();
\* variant: the second join comes back only for a worker that returned
ParJoin2_okonly ==
    /\ InRunPar
    /\ pc = "join2"
    /\ w[2].st = "done"
    /\ loc' = [loc EXCEPT !.solve2 = JoinResult(2)]
    /\ w' = [w EXCEPT ![2].joined = TRUE]
    /\ pc' = "scope_end"
    /\ UNCHANGED <<puzzle, page, now, call, log, ret>>

ParJoin2 ==
    /\ InRunPar
    /\ pc = "join2"
    /\ Terminated(2)
    /\ loc' = [loc EXCEPT !.solve2 = JoinResult(2)]
    /\ w' = [w EXCEPT ![2].joined = TRUE]
    /\ pc' = "scope_end"
    /\ UNCHANGED <<puzzle, page, now, call, log, ret>>

\* variant: a worker that panicked contributes an absent answer
Aggregate_partial(solve1, solve2, parse_time) ==
    Ok(SolutionResult(IF IsOk(solve1) THEN solve1[2][1] ELSE None,
                      IF IsOk(solve2) THEN solve2[2][1] ELSE None,
                      parse_time,
                      IF IsOk(solve1) THEN solve1[2][2] ELSE 0,
                      IF IsOk(solve2) THEN solve2[2][2] ELSE 0))

\* variant: an absent answer is taken for a failed worker
Aggregate_strict(solve1, solve2, parse_time) ==
    IF /\ IsOk(solve1) /\ IsOk(solve2)
       /\ solve1[2][1] # None /\ solve2[2][1] # None
    THEN Ok(SolutionResult(solve1[2][1], solve2[2][1], parse_time,
                           solve1[2][2], solve2[2][2]))
    ELSE Err("Run")

\* the match on (solve1, solve2)
Aggregate(solve1, solve2, parse_time) ==
    IF IsOk(solve1) /\ IsOk(solve2)
    THEN Ok(SolutionResult(solve1[2][1], solve2[2][1], parse_time,
                           solve1[2][2], solve2[2][2]))
    ELSE Err("Run")

\* the closure of thread::scope returns (solve1, solve2); scope waits for
\* the threads nobody joined and is Err when one of those panicked, which
\* .map_err(|_| SolutionError::Run)? returns; else the match decides
ParScopeEnd ==
    /\ InRunPar
    /\ pc = "scope_end"
    /\ \A i \in Workers : w[i].st = "none" \/ Terminated(i)
    /\ LET panics == {i \in Workers : w[i].st = "panicked" /\ ~w[i].joined} IN
        IF panics # {}
        THEN Return(Err("Run"))
        ELSE Return(Aggregate(loc.solve1, loc.solve2, loc.parse_time))
    /\ UNCHANGED <<puzzle, page, now, call, w, log>>

\* ------------------------------------------- test_part1 and test_part2
TestName(n) == IF n = 1 THEN "test_part1" ELSE "test_part2"
PartName(n) == IF n = 1 THEN "part1" ELSE "part2"
\* the label of the line that test_part1 / test_part2 prints
PartTag(n) == IF n = 1 THEN "Part1" ELSE "Part2"

\* test_part1(input: &str), test_part2(input: &str)
CallTest(n, raw) ==
    /\ Invoke(TestName(n))
    /\ pc' = "parse"
    /\ loc' = [NoLocals EXCEPT !.input = raw]

TestParseCall(n) == call = TestName(n) /\ ParseCallStep

TestParseRet(n) == call = TestName(n) /\ ParseRetStep("part")

\* time!(Self::part1(&input)) in test_part1, time!(Self::part2(&input))
\* in test_part2
TestPartCall(n) ==
    /\ call = TestName(n)
    /\ pc = "part"
    /\ loc' = [loc EXCEPT !.start = now]
    /\ log' = Append(log, Ev("main", PartName(n), "call", loc.parsed))
    /\ pc' = "part_ret"
    /\ UNCHANGED <<puzzle, page, now, call, w, ret>>

\* variant: the duration returned is the one of the part alone
TestPartRet_parttime(n) ==
    /\ call = TestName(n)
    /\ pc = "part_ret"
    /\ LET o == Apply(PartName(n), loc.parsed)
           total_time == elapsed(loc.start)
       IN
        IF o = Panic
        THEN /\ log' = Append(log, Ev("main", PartName(n), "panic", <<>>))
             /\ Return(Panicked)
             /\ UNCHANGED out
        ELSE /\ log' = Append(log, Ev("main", PartName(n), "ret", o))
             /\ out' = <<<<PartTag(n), o, format_duration(total_time)>>>>
             /\ Return(Ok(<<o, total_time>>))
    /\ UNCHANGED <<puzzle, subject, now, call, w>>

\* let total_time = time + parse_time; println!("Part1: {:?} (in {})", ..);
\* Ok((actual, total_time))
TestPartRet(n) ==
    /\ call = TestName(n)
    /\ pc = "part_ret"
    /\ LET o == Apply(PartName(n), loc.parsed)
           total_time == elapsed(loc.start) + loc.parse_time
       IN
        IF o = Panic
        THEN /\ log' = Append(log, Ev("main", PartName(n), "panic", <<>>))
             /\ Return(Panicked)
             /\ UNCHANGED out
        ELSE /\ log' = Append(log, Ev("main", PartName(n), "ret", o))
             /\ out' = <<<<PartTag(n), o, format_duration(total_time)>>>>
             /\ Return(Ok(<<o, total_time>>))
    /\ UNCHANGED <<puzzle, subject, now, call, w>>

Next ==
    \/ Tick
    \/ CallRun
    \/ RunGetInput
    \/ RunParseCall
    \/ RunParseRet
    \/ RunPart1Call
    \/ RunPart1Ret
    \/ RunPart2Call
    \/ RunPart2Ret
    \/ CallRunPar
    \/ ParGetInput
    \/ ParParseCall
    \/ ParParseRet
    \/ ParSpawn1
    \/ ParSpawn2
    \/ \E i \in Workers : WorkerStart(i)
    \/ \E i \in Workers : WorkerFinish(i)
    \/ ParJoin1
    \/ ParJoin2
    \/ ParScopeEnd
    \/ \E n \in {1, 2}, raw \in RawInputs : CallTest(n, raw)
    \/ \E n \in {1, 2} : TestParseCall(n)
    \/ \E n \in {1, 2} : TestParseRet(n)
    \/ \E n \in {1, 2} : TestPartCall(n)
    \/ \E n \in {1, 2} : TestPartRet(n)

Spec == Init /\ [][Next]_vars

\* ------------------------------------------ run_par under fair scheduling
\* run_par alone, invoked again and again
NextRunPar ==
    \/ Tick
    \/ CallRunPar
    \/ ParGetInput
    \/ ParParseCall
    \/ ParParseRet
    \/ ParSpawn1
    \/ ParSpawn2
    \/ \E i \in Workers : WorkerStart(i)
    \/ \E i \in Workers : WorkerFinish(i)
    \/ ParJoin1
    \/ ParJoin2
    \/ ParScopeEnd

\* the steps of the thread that called run_par; get_input and parse are
\* among them, so that each of them comes back once it has been called
CallerStep ==
    \/ ParGetInput
    \/ ParParseCall
    \/ ParParseRet
    \/ ParSpawn1
    \/ ParSpawn2
    \/ ParJoin1
    \/ ParJoin2
    \/ ParScopeEnd

\* the steps of worker i: it enters its part, and the part ends
WorkerStep(i) == WorkerStart(i) \/ WorkerFinish(i)

\* every thread that can run is eventually run, and a function that was
\* called eventually returns or panics
FairScheduling ==
    /\ WF_vars(CallerStep)
    /\ \A i \in Workers : WF_vars(WorkerStep(i))

SpecRunParFair == Init /\ [][NextRunPar]_vars /\ FairScheduling

\* ------------------------------------- run_par when a thread cannot start
\* s.spawn(..) yields the handle itself (run_par calls .join() on it), so a
\* thread the operating system refuses cannot come back as a value: the
\* spawn panics inside the closure of thread::scope
SpawnFailStep(i) ==
    /\ InRunPar
    /\ w[i].st = "none"
    /\ w' = [w EXCEPT ![i].st = "failed"]
    /\ pc' = "scope_unwind"
    /\ UNCHANGED <<puzzle, page, now, call, loc, log, ret>>

\* let solve1 = s.spawn(..) when the first thread cannot start
ParSpawnFail1 == pc = "spawn1" /\ SpawnFailStep(1)

\* let solve2 = s.spawn(..) when the second thread cannot start
ParSpawnFail2 == pc = "spawn2" /\ SpawnFailStep(2)

\* thread::scope caught the panic of its closure: it waits for the threads
\* that did start and resumes the unwinding, so .map_err and the match are
\* never reached and the panic leaves run_par
ParScopeUnwind ==
    /\ InRunPar
    /\ pc = "scope_unwind"
    /\ \A i \in Workers : w[i].st \in {"none", "failed"} \/ Terminated(i)
    /\ Return(Panicked)
    /\ UNCHANGED <<puzzle, page, now, call, w, log>>

NextSpawn ==
    \/ Next
    \/ ParSpawnFail1
    \/ ParSpawnFail2
    \/ ParScopeUnwind

\* the runners on a system that may refuse to start a thread
SpecSpawn == Init /\ [][NextSpawn]_vars

\* ------------------------------------------ Display for SolutionResult
\* the nanoseconds a unit of format_duration stands for
UnitNanos(u) ==
    CASE u = "s" -> Micro * Micro * Micro
      [] u = "ms" -> Micro * Micro
      [] u = "us" -> Micro
      [] u = "ns" -> 1

\* the duration that a text of format_duration reads as
RECURSIVE ReadDuration(_)
ReadDuration(t) ==
    IF t = <<>> THEN 0
    ELSE t[1][1] * UnitNanos(t[1][2]) + ReadDuration(Tail(t))

\* let heading = ..: the title line between two lines of '='
heading(r) == <<<<"=">>, <<"Day", Pad02(r.day), r.title>>, <<"=">>>>

\* variant: the total of the second arm counts part2_duration as well
fmt_allphases(r) ==
    CASE r.part1 # None /\ r.part2 # None ->
            heading(r) \o
            <<<<"Part 1", r.part1[2]>>,
              <<"Part 2", r.part2[2]>>,
              <<"----">>,
              <<"Time1", format_duration(r.part1_duration)>>,
              <<"Time2", format_duration(r.part2_duration)>>,
              <<"Parse Time", format_duration(r.parse_duration)>>,
              <<"Total Time",
                format_duration(r.part1_duration + r.part2_duration
                                + r.parse_duration)>>>>
      [] r.part1 # None /\ r.part2 = None ->
            heading(r) \o
            <<<<"Part 1", r.part1[2]>>,
              <<"----">>,
              <<"Time1", format_duration(r.part1_duration)>>,
              <<"Parse Time", format_duration(r.parse_duration)>>,
              <<"Total Time",
                format_duration(r.part1_duration + r.part2_duration
                                + r.parse_duration)>>>>
      [] OTHER ->
            heading(r) \o
            <<<<"Parsing time", format_duration(r.parse_duration)>>>>

\* fn fmt: the lines of the report, one arm of the match per case; the arm
\* (Some(p1), _) is the one of an absent part2, the arm _ the one of an
\* absent part1 whatever part2 is
fmt(r) ==
    CASE r.part1 # None /\ r.part2 # None ->
            heading(r) \o
            <<<<"Part 1", r.part1[2]>>,
              <<"Part 2", r.part2[2]>>,
              <<"----">>,
              <<"Time1", format_duration(r.part1_duration)>>,
              <<"Time2", format_duration(r.part2_duration)>>,
              <<"Parse Time", format_duration(r.parse_duration)>>,
              <<"Total Time",
                format_duration(r.part1_duration + r.part2_duration
                                + r.parse_duration)>>>>
      [] r.part1 # None /\ r.part2 = None ->
            heading(r) \o
            <<<<"Part 1", r.part1[2]>>,
              <<"----">>,
              <<"Time1", format_duration(r.part1_duration)>>,
              <<"Parse Time", format_duration(r.parse_duration)>>,
              <<"Total Time",
                format_duration(r.part1_duration + r.parse_duration)>>>>
      [] OTHER ->
            heading(r) \o
            <<<<"Parsing time", format_duration(r.parse_duration)>>>>

\* the durations a report is drawn from: whole nanoseconds and whole
\* microseconds up to MaxTime
Durations == {k * u : k \in 0..MaxTime, u \in {1, Micro}}

\* the values of struct SolutionResult that are formatted
SolutionResults ==
    [title : {TITLE}, day : U8, part1 : Options, part2 : Options,
     parse_duration : Durations, part1_duration : Durations,
     part2_duration : Durations]

\* no implementation of the trait takes part: nothing of it is called
NoSolution ==
    /\ file = <<>>
    /\ parse = [r \in RawInputs |-> Err("ParseError")]
    /\ part1 = [p \in ParsedInputs |-> None]
    /\ part2 = [p \in ParsedInputs |-> None]

\* some SolutionResult is about to be formatted
InitDisplay ==
    /\ NoSolution
    /\ now = 0
    /\ call = "none"
    /\ pc = "idle"
    /\ loc = NoLocals
    /\ w = [i \in Workers |-> NoWorker]
    /\ log = <<>>
    /\ ret = NotReturned
    /\ subject \in SolutionResults
    /\ out = <<>>

\* format!("{}", result): fmt writes the report
Display ==
    /\ subject \in SolutionResults
    /\ out = <<>>
    /\ out' = fmt(subject)
    /\ UNCHANGED <<puzzle, now, call, pc, loc, w, log, ret, subject>>

NextDisplay == Display

SpecDisplay == InitDisplay /\ [][NextDisplay]_vars

\* the report has a line that starts with `label`
HasLine(label) == \E k \in DOMAIN out : out[k][1] = label

\* the duration that the line `label` of the report shows
Shown(label) ==
    ReadDuration((CHOOSE l \in {out[k] : k \in DOMAIN out} : l[1] = label)[2])

\* ------------------------------------------------------------ solution!
\* #[error(..)] of SolutionError: what `{}` writes for the error
ErrorText(e) ==
    CASE e = "ParseError" -> "Invalid Puzzle input"
      [] e = "PuzzleInput" -> "Missing Puzzle input"
      [] e = "Run" -> "Error while running solution"

\* format!("Day {} - {:?} Error: {}", $d::DAY, $d::TITLE, e)
ErrorLine(e) == <<"Day", Digits(DAY), "-", TITLE, "Error:", ErrorText(e)>>

\* solution!($d): match $d::run_par() { .. }
CallSolution ==
    /\ Invoke("solution")
    /\ pc' = "get_input"
    /\ loc' = NoLocals

\* variant: the result of run_par is unwrapped, an Err panics
SolutionMatch_unwrap ==
    /\ call = "solution"
    /\ pc = "match"
    /\ IF IsOk(ret)
       THEN out' = fmt(ret[2]) /\ UNCHANGED ret
       ELSE ret' = Panicked /\ UNCHANGED out
    /\ pc' = "idle"
    /\ UNCHANGED <<puzzle, subject, now, call, loc, w, log>>

\* Ok(result) => println!("{}", result),
\* Err(e) => println!("Day {} - {:?} Error: {}", $d::DAY, $d::TITLE, e)
SolutionMatch ==
    /\ call = "solution"
    /\ pc = "match"
    /\ out' = IF IsOk(ret) THEN fmt(ret[2]) ELSE <<ErrorLine(ret[2])>>
    /\ pc' = "idle"
    /\ UNCHANGED <<puzzle, subject, now, call, loc, w, log, ret>>

\* the entry point: solution! and the run_par it calls
NextMain ==
    \/ Tick
    \/ CallSolution
    \/ ParGetInput
    \/ ParParseCall
    \/ ParParseRet
    \/ ParSpawn1
    \/ ParSpawn2
    \/ \E i \in Workers : WorkerStart(i)
    \/ \E i \in Workers : WorkerFinish(i)
    \/ ParJoin1
    \/ ParJoin2
    \/ ParScopeEnd
    \/ SolutionMatch

SpecMain == Init /\ [][NextMain]_vars

\* ------------------------------------------- get_input, for any DAY
\* format!("inputs/DAY_{:02}.txt", Self::DAY)
InputPath(day) == <<"inputs/DAY_", Pad02(day), ".txt">>

\* kinds of std::io::Error that read_to_string fails with
IoErrors == {"NotFound", "PermissionDenied"}

\* #[from] std::io::Error: the `?` of get_input wraps the error
FromIo(e) == <<"PuzzleInput", e>>

\* an implementation with some DAY (in `subject`) has not read its input
InitInput ==
    /\ file \in FileStates
    /\ parse = [r \in RawInputs |-> Err("ParseError")]
    /\ part1 = [p \in ParsedInputs |-> None]
    /\ part2 = [p \in ParsedInputs |-> None]
    /\ now = 0
    /\ call = "none"
    /\ pc = "idle"
    /\ loc = NoLocals
    /\ w = [i \in Workers |-> NoWorker]
    /\ log = <<>>
    /\ ret = NotReturned
    /\ subject \in U8
    /\ out = <<>>

\* fn get_input(): the path is formatted (kept in `out`), the file at it
\* is read, of which `file` is the state; the log has what
\* read_to_string came back with
ReadInput ==
    /\ call = "none"
    /\ pc = "idle"
    /\ call' = "get_input"
    /\ out' = <<InputPath(subject)>>
    /\ IF file = <<>>
       THEN \E e \in IoErrors :
               /\ log' = <<Ev("main", "read_to_string", "err", e)>>
               /\ ret' = Err(FromIo(e))
       ELSE /\ log' = <<Ev("main", "read_to_string", "ret", file[1])>>
            /\ ret' = Ok(file[1])
    /\ UNCHANGED <<puzzle, subject, now, pc, loc, w>>

NextInput == ReadInput

SpecInput == InitInput /\ [][NextInput]_vars

\* ------------------------------- run and run_par on files of any text
MaxPad == 1        \* whitespace characters on either side of the text

\* n whitespace characters
RECURSIVE Spaces(_)
Spaces(n) == IF n = 0 THEN <<>> ELSE <<" ">> \o Spaces(n - 1)

\* the content of an input file: some text, whitespace around it or not
Texts == {Spaces(l) \o <<"x">> \o Spaces(r) : l, r \in 0..MaxPad}

\* two implementations of parse: one accepts any text, the other only a
\* text without surrounding whitespace
Parsers ==
    {[t \in Texts |-> Ok(1)],
     [t \in Texts |-> IF t = trim(t) THEN Ok(1) ELSE Err("ParseError")]}

\* the file has some text; part1 and part2 are those of Demo
InitText ==
    /\ file \in {<<t>> : t \in Texts}
    /\ parse \in Parsers
    /\ part1 = [p \in ParsedInputs |-> None]
    /\ part2 = [p \in ParsedInputs |-> Some(1)]
    /\ now = 0
    /\ call = "none"
    /\ pc = "idle"
    /\ loc = NoLocals
    /\ w = [i \in Workers |-> NoWorker]
    /\ log = <<>>
    /\ ret = NotReturned
    /\ subject = <<>>
    /\ out = <<>>

\* run and run_par
NextText ==
    \/ Tick
    \/ CallRun
    \/ RunGetInput
    \/ RunParseCall
    \/ RunParseRet
    \/ RunPart1Call
    \/ RunPart1Ret
    \/ RunPart2Call
    \/ RunPart2Ret
    \/ CallRunPar
    \/ ParGetInput
    \/ ParParseCall
    \/ ParParseRet
    \/ ParSpawn1
    \/ ParSpawn2
    \/ \E i \in Workers : WorkerStart(i)
    \/ \E i \in Workers : WorkerFinish(i)
    \/ ParJoin1
    \/ ParJoin2
    \/ ParScopeEnd

SpecText == InitText /\ [][NextText]_vars

\* ------------------------------------------------- tests::time_macro
MaxBracket == 3    \* the clock of time_macro runs from 0 to MaxBracket

\* the values the timed expression can have
ExprValues == Options

\* start, elapsed: the outer bracket; time_start, result, time: the time!
NoTimeLocals == [start |-> 0, time_start |-> 0, result |-> <<>>, time |-> 0,
                 elapsed |-> 0]

InitTime ==
    /\ NoSolution
    /\ now = 0
    /\ call = "none"
    /\ pc = "idle"
    /\ loc = NoLocals
    /\ w = [i \in Workers |-> NoWorker]
    /\ log = <<>>
    /\ ret = NotReturned
    /\ subject = <<>>
    /\ out = <<>>

\* fn time_macro()
CallTimeMacro ==
    /\ Invoke("time_macro")
    /\ pc' = "outer_start"
    /\ loc' = NoTimeLocals

\* the clock advances, anywhere in the test
TimeTick ==
    /\ call = "time_macro"
    /\ pc # "idle"
    /\ now < MaxBracket
    /\ now' = now + 1
    /\ UNCHANGED <<puzzle, page, call, pc, loc, w, log, ret>>

\* let start = Instant::now();  (the one of the test)
OuterStart ==
    /\ call = "time_macro"
    /\ pc = "outer_start"
    /\ loc' = [loc EXCEPT !.start = now]
    /\ pc' = "time_start"
    /\ UNCHANGED <<puzzle, page, now, call, w, log, ret>>

\* variant: time! measures from the origin of the clock
TimeStart_origin ==
    /\ call = "time_macro"
    /\ pc = "time_start"
    /\ loc' = [loc EXCEPT !.time_start = 0]
    /\ pc' = "expr"
    /\ UNCHANGED <<puzzle, page, now, call, w, log, ret>>

\* time!: let start = Instant::now();
TimeStart ==
    /\ call = "time_macro"
    /\ pc = "time_start"
    /\ loc' = [loc EXCEPT !.time_start = now]
    /\ pc' = "expr"
    /\ UNCHANGED <<puzzle, page, now, call, w, log, ret>>

\* time!: let result = $e;  the expression is entered
ExprCall ==
    /\ call = "time_macro"
    /\ pc = "expr"
    /\ log' = Append(log, Ev("main", "expr", "call", <<>>))
    /\ pc' = "expr_ret"
    /\ UNCHANGED <<puzzle, page, now, call, loc, w, ret>>

\* variant: the macro expands its argument twice and keeps the second value
ExprRet_twice ==
    /\ call = "time_macro"
    /\ pc = "expr_ret"
    /\ \E v, v2 \in ExprValues :
          /\ log' = log \o <<Ev("main", "expr", "ret", v),
                              Ev("main", "expr", "call", <<>>),
                              Ev("main", "expr", "ret", v2)>>
          /\ loc' = [loc EXCEPT !.result = v2]
    /\ pc' = "time_end"
    /\ UNCHANGED <<puzzle, page, now, call, w, ret>>

\* the expression yields its value, which `result` is bound to
ExprRet ==
    /\ call = "time_macro"
    /\ pc = "expr_ret"
    /\ \E v \in ExprValues :
          /\ log' = Append(log, Ev("main", "expr", "ret", v))
          /\ loc' = [loc EXCEPT !.result = v]
    /\ pc' = "time_end"
    /\ UNCHANGED <<puzzle, page, now, call, w, ret>>

\* time!: let elapsed = start.elapsed(); (result, elapsed)
TimeEnd ==
    /\ call = "time_macro"
    /\ pc = "time_end"
    /\ loc' = [loc EXCEPT !.time = elapsed(loc.time_start)]
    /\ pc' = "outer_end"
    /\ UNCHANGED <<puzzle, page, now, call, w, log, ret>>

\* let elapsed = start.elapsed();  (the one of the test)
OuterEnd ==
    /\ call = "time_macro"
    /\ pc = "outer_end"
    /\ loc' = [loc EXCEPT !.elapsed = elapsed(loc.start)]
    /\ pc' = "assert"
    /\ UNCHANGED <<puzzle, page, now, call, w, log, ret>>

\* the value the expression yielded, as the log has it
ExprValue ==
    log[CHOOSE k \in DOMAIN log : log[k][2] = "expr" /\ log[k][3] = "ret"][4]

\* assert_eq!(result, 42); assert!(time <= elapsed, ..): a failed
\* assertion panics
TimeAssert ==
    /\ call = "time_macro"
    /\ pc = "assert"
    /\ IF loc.result = ExprValue /\ loc.time <= loc.elapsed
       THEN ret' = Ok(<<>>)
       ELSE ret' = Panicked
    /\ pc' = "idle"
    /\ UNCHANGED <<puzzle, page, now, call, loc, w, log>>

NextTime ==
    \/ CallTimeMacro
    \/ TimeTick
    \/ OuterStart
    \/ TimeStart
    \/ ExprCall
    \/ ExprRet
    \/ TimeEnd
    \/ OuterEnd
    \/ TimeAssert

SpecTime == InitTime /\ [][NextTime]_vars

\* ------------------------------------------- examples/aoc_2020_day01.rs
MaxLines == 3      \* lines of an input of Day01

\* the sum that part1 and part2 of Day01 look for
Target == 2020

\* the idle runner, which the specifications of the examples leave alone
Idle ==
    /\ NoSolution
    /\ now = 0
    /\ call = "none"
    /\ pc = "idle"
    /\ loc = NoLocals
    /\ w = [i \in Workers |-> NoWorker]
    /\ log = <<>>
    /\ out = <<>>

\* the sequences over S of length at most n
SeqsUpTo(S, n) == UNION {[1..k -> S] : k \in 0..n}

\* a character is written as its value as a digit (char::to_digit): '0' to
\* '9' are 0 to 9, and 'a', which is no decimal digit, is 10
LetterA == 10

\* the lines of the inputs: some numbers, written in decimal, and a line
\* that is no number
Day01Lines == {Digits(n) : n \in {20, 1000, 1010, 1020}} \cup {<<LetterA>>}

\* the input of the test of Day01, line by line
ScenarioA == <<Digits(1721), Digits(979), Digits(366), Digits(299),
               Digits(675), Digits(1456)>>

\* line.parse::<usize>().ok(): Some for a line of decimal digits
IsNumber(line) == line # <<>> /\ \A k \in DOMAIN line : line[k] \in 0..9

\* Day01::parse: input.lines().filter_map(|line| line.parse().ok())
Day01Parse(lines) ==
    LET nums == SelectSeq(lines, IsNumber)
    IN  [k \in DOMAIN nums |-> DigitsValue(nums[k])]

\* tuple g comes before tuple h in the order of cartesian_product
RECURSIVE LexBefore(_, _)
LexBefore(g, h) ==
    /\ g # <<>>
    /\ \/ g[1] < h[1]
       \/ g[1] = h[1] /\ LexBefore(Tail(g), Tail(h))

\* Iterator::find: the first of the tuples `hits`
First(hits) == CHOOSE h \in hits : \A g \in hits : g = h \/ LexBefore(h, g)

\* Day01::part1: the first (a, b) of input x input with a + b == 2020
Day01Part1(l) ==
    LET hits == {h \in (DOMAIN l) \X (DOMAIN l) : l[h[1]] + l[h[2]] = Target}
    IN  IF hits = {} THEN None
        ELSE Some(l[First(hits)[1]] * l[First(hits)[2]])

\* Day01::part2: the first ((a, b), c) with a + b + c == 2020
Day01Part2(l) ==
    LET hits == {h \in (DOMAIN l) \X (DOMAIN l) \X (DOMAIN l) :
                    l[h[1]] + l[h[2]] + l[h[3]] = Target}
    IN  IF hits = {} THEN None
        ELSE Some(l[First(hits)[1]] * l[First(hits)[2]] * l[First(hits)[3]])

\* some input is about to be given to Day01
InitDay01 ==
    /\ Idle
    /\ subject \in SeqsUpTo(Day01Lines, MaxLines) \cup {ScenarioA}
    /\ ret = NotReturned

\* parse, then part1 and part2 on what was parsed
Day01Solve ==
    /\ ret = NotReturned
    /\ LET input == Day01Parse(subject)
       IN  ret' = Ok(<<input, Day01Part1(input), Day01Part2(input)>>)
    /\ UNCHANGED <<puzzle, page, now, call, pc, loc, w, log>>

NextDay01 == Day01Solve

SpecDay01 == InitDay01 /\ [][NextDay01]_vars

\* ------------------------------------------- examples/day_with_macros.rs
MaxChars == 3      \* characters of an input of Day00, any of them
MaxNines == 11     \* characters of an input of Day00 made of '9' only

\* a u32 is written as its 16-bit halves, the low one first, without the
\* halves that are zero at the high end (so 0 is <<>>); a natural number
\* of any size is written the same way with more than two halves
Half == 65536

\* n * d + c for a number n in halves and d, c below Half
RECURSIVE MulAdd(_, _, _)
MulAdd(n, d, c) ==
    IF n = <<>> THEN (IF c = 0 THEN <<>> ELSE <<c>>)
    ELSE <<(n[1] * d + c) % Half>>
         \o MulAdd(Tail(n), d, (n[1] * d + c) \div Half)

\* without the zero halves at the high end
RECURSIVE Norm(_)
Norm(n) ==
    IF n # <<>> /\ n[Len(n)] = 0 THEN Norm(SubSeq(n, 1, Len(n) - 1)) ELSE n

\* the number d below Half, in halves
Halves(d) == Norm(<<d>>)

\* the builds: with overflow checks (debug) and without (release)
Builds == {"debug", "release"}

\* a * d for a u32 a: Ok(the product), or, when the product does not fit,
\* a panic in a build with overflow checks and Ok(its low 32 bits) in one
\* without
MulU32(a, d, build) ==
    LET full == Norm(MulAdd(a, d, 0))
    IN  IF Len(full) <= 2 THEN Ok(full)
        ELSE IF build = "debug" THEN Panic
        ELSE Ok(Norm(SubSeq(full, 1, 2)))

\* Iterator::product of the u32 in l on from acc, which is Ok or a panic
RECURSIVE ProductFrom(_, _, _)
ProductFrom(acc, l, build) ==
    IF l = <<>> \/ ~IsOk(acc) THEN acc
    ELSE ProductFrom(MulU32(acc[2], l[1], build), Tail(l), build)

\* Iterator::sum of the u32 in l (no sum of so few digits overflows)
RECURSIVE Sum(_)
Sum(l) == IF l = <<>> THEN 0 ELSE l[1] + Sum(Tail(l))

\* variant: the characters that are no digit are skipped
Day00Parse_skip(chars) ==
    Ok(SelectSeq(chars, LAMBDA c : c < 10))

\* parse of Day00: c.to_digit(10).ok_or(ParseError) for each character,
\* collected into a Result
Day00Parse(chars) ==
    IF \A k \in DOMAIN chars : chars[k] < 10
    THEN Ok(chars)
    ELSE Err("ParseError")

\* part_1 of Day00: input.iter().sum1()
Day00Part1(l) == IF l = <<>> THEN None ELSE Some(Sum(l))

\* part_2 of Day00: input.iter().product1()
Day00Part2(l, build) ==
    IF l = <<>> THEN None
    ELSE LET p == ProductFrom(Ok(Halves(1)), l, build)
         IN  IF IsOk(p) THEN Some(p[2]) ELSE Panic

\* the inputs: the short strings of '0', '1', '2' and 'a', the "12345" of
\* the implement!, and the strings of nines
Day00Inputs ==
    SeqsUpTo({0, 1, 2, LetterA}, MaxChars)
    \cup {<<1, 2, 3, 4, 5>>}
    \cup {[k \in 1..n |-> 9] : n \in 1..MaxNines}

\* some input is about to be given to Day00, built in some way
InitDay00 ==
    /\ Idle
    /\ subject \in Day00Inputs
    /\ ret = NotReturned

\* parse, then part1 and part2 on what was parsed
Day00Solve ==
    /\ ret = NotReturned
    /\ LET r == Day00Parse(subject)
       IN  IF IsErr(r) THEN ret' = r
           ELSE \E build \in Builds :
                   ret' = Ok(<<r[2], Day00Part1(r[2]),
                               Day00Part2(r[2], build)>>)
    /\ UNCHANGED <<puzzle, page, now, call, pc, loc, w, log>>

NextDay00 == Day00Solve

SpecDay00 == InitDay00 /\ [][NextDay00]_vars

\* ------------------------------------------------- reading the log
\* the last invocation was of runner f and has ended
Finished(f) == call = f /\ pc = "idle"

\* thread t did (op, e) in the current invocation
LogHas(t, op, e) ==
    \E k \in DOMAIN log : log[k][1] = t /\ log[k][2] = op /\ log[k][3] = e

\* number of (op, e) entries of the current invocation, whatever the thread
Count(op, e) ==
    Cardinality({k \in DOMAIN log : log[k][2] = op /\ log[k][3] = e})

\* part `op` came back with the Option v in the current invocation
PartReturned(op, v) ==
    \E k \in DOMAIN log :
        log[k][2] = op /\ log[k][3] = "ret" /\ log[k][4] = v

NoPanic == \A k \in DOMAIN log : log[k][3] # "panic"

\* entry j of the log is (t1, op1, e1), a later entry k is (t2, op2, e2)
Precedes(t1, op1, e1, t2, op2, e2) ==
    \E j, k \in DOMAIN log :
        /\ j < k
        /\ log[j][1] = t1 /\ log[j][2] = op1 /\ log[j][3] = e1
        /\ log[k][1] = t2 /\ log[k][2] = op2 /\ log[k][3] = e2

Runners == {"run", "run_par"}

\* ------------------------------------------------------------ claims

\* C1: when run_par has returned and one of its workers panicked, it
\* returned Err(SolutionError::Run), hence no SolutionResult, whatever the
\* other worker did and in whatever order the workers ran.
C1_FailFast ==
    (Finished("run_par") /\ \E i \in Workers : w[i].st = "panicked")
        => ret = Err("Run")

\* the part1 worker panicked, the part2 worker came back with Some answer
C1_Witness ==
    /\ Finished("run_par")
    /\ w[1].st = "panicked"
    /\ w[2].st = "done" /\ w[2].res[1] = Some(1)
    /\ ret = Err("Run")

\* the input file can be read and parse returns Ok for its content
InputParses == file # <<>> /\ IsOk(parse[file[1]])

\* the value of Solution::Input that parse makes of the input file
ParsedFile == parse[file[1]][2]

\* C2: when the input file parses and neither part panics on the parsed
\* input, a finished run and a finished run_par have both returned Ok; and
\* every Ok aggregate, of run or of run_par, carries as its answers exactly
\* part1 and part2 of the parsed input file, so the answers of the two
\* runners are the same, whatever the order in which the workers ran.
C2_Determinism ==
    \A f \in Runners :
        Finished(f) =>
            /\ (/\ InputParses
                /\ part1[ParsedFile] # Panic
                /\ part2[ParsedFile] # Panic) => IsOk(ret)
            /\ IsOk(ret) => /\ InputParses
                            /\ ret[2].part1 = part1[ParsedFile]
                            /\ ret[2].part2 = part2[ParsedFile]

\* run_par returned Ok with different answers for the two parts, and the
\* part2 worker had finished before the part1 worker began
C2_Witness ==
    /\ Finished("run_par")
    /\ IsOk(ret)
    /\ ret[2].part1 = Some(1)
    /\ ret[2].part2 = None
    /\ Precedes("w2", "part2", "ret", "w1", "part1", "call")

\* C3 as stated: every finished invocation of run or run_par has invoked
\* parse exactly once.
C3_ParseExactlyOnce ==
    \A f \in Runners : Finished(f) => Count("parse", "call") = 1

\* C3 as amended: an invocation of run or run_par never invokes parse more
\* than once, only its calling thread invokes it and never after a solving
\* phase has begun; it has invoked parse exactly once when it ends after a
\* successful get_input, and not at all when get_input failed.
C3_SingleParse ==
    call \in Runners =>
        /\ Count("parse", "call") <= 1
        /\ \A k \in DOMAIN log : log[k][2] = "parse" => log[k][1] = "main"
        /\ \A j, k \in DOMAIN log :
              (log[j][2] \in {"part1", "part2"} /\ log[k][2] = "parse")
                  => k < j
        /\ (pc = "idle" /\ LogHas("main", "get_input", "ret"))
              => Count("parse", "call") = 1
        /\ LogHas("main", "get_input", "err") => Count("parse", "call") = 0

\* run_par ended after both workers ran their part, with one call of parse
C3_Witness ==
    /\ Finished("run_par")
    /\ w[1].st = "done" /\ w[2].st = "done"
    /\ Count("parse", "call") = 1

\* C4: an invocation of run or run_par in which nothing panicked and a part
\* returned None ends with Ok, the answer of that part being None; the same
\* for test_part1 / test_part2 and their part; and run_par returns
\* SolutionError::Run only when a worker panicked.
C4_NoneIsSuccess ==
    /\ \A f \in Runners :
          (/\ Finished(f)
           /\ NoPanic
           /\ PartReturned("part1", None) \/ PartReturned("part2", None))
              => /\ IsOk(ret)
                 /\ PartReturned("part1", None) => ret[2].part1 = None
                 /\ PartReturned("part2", None) => ret[2].part2 = None
    /\ \A n \in {1, 2} :
          (Finished(TestName(n)) /\ PartReturned(PartName(n), None))
              => IsOk(ret) /\ ret[2][1] = None
    /\ (Finished("run_par") /\ ret = Err("Run"))
          => \E i \in Workers : w[i].st = "panicked"

\* run_par returned Ok with part1 None and part2 Some answer
C4_Witness ==
    /\ Finished("run_par")
    /\ PartReturned("part1", None)
    /\ IsOk(ret)
    /\ ret[2].part1 = None
    /\ ret[2].part2 = Some(1)

\* C5: in run and run_par, a failed get_input ends the invocation with the
\* PuzzleInput error and nothing else was called; a failed parse ends it
\* with the error of parse, no part was called and no worker was spawned.
C5_ErrorsShortCircuit ==
    call \in Runners =>
        /\ LogHas("main", "get_input", "err")
              => /\ pc = "idle"
                 /\ ret = Err("PuzzleInput")
                 /\ Len(log) = 2
                 /\ \A i \in Workers : w[i].st = "none"
        /\ LogHas("main", "parse", "err")
              => /\ pc = "idle"
                 /\ ret = Err("ParseError")
                 /\ \A k \in DOMAIN log : log[k][2] \notin {"part1", "part2"}
                 /\ \A i \in Workers : w[i].st = "none"

\* run_par ended on the error of parse
C5_Witness ==
    /\ Finished("run_par")
    /\ LogHas("main", "parse", "err")
    /\ ret = Err("ParseError")

\* C6: in run_par, whatever a worker does comes after parse has returned Ok
\* to the calling thread: a worker that is running or has ended, and every
\* log entry of a worker, is preceded by the return of parse.
C6_ParseBeforeWorkers ==
    call = "run_par" =>
        /\ \A i \in Workers :
              w[i].st \in {"running", "done", "panicked"}
                  => LogHas("main", "parse", "ret")
        /\ \A k \in DOMAIN log :
              log[k][1] \in {"w1", "w2"}
                  => \E j \in 1..(k - 1) :
                        /\ log[j][1] = "main"
                        /\ log[j][2] = "parse"
                        /\ log[j][3] = "ret"

\* the worker spawned second ran part2 to its end before the worker
\* spawned first entered part1
C6_Witness ==
    /\ call = "run_par"
    /\ Precedes("main", "parse", "ret", "w2", "part2", "call")
    /\ Precedes("w2", "part2", "ret", "w1", "part1", "call")

\* C7: when run_par has returned, with Ok or with Err, none of its workers
\* is waiting to run or running; so as long as a worker has not ended,
\* run_par has not returned.
C7_JoinedBeforeReturn ==
    (call = "run_par" /\ \E i \in Workers : w[i].st \in {"spawned", "running"})
        => pc # "idle"

\* run_par returned Err after the part1 worker panicked before the part2
\* worker had even entered part2
C7_Witness ==
    /\ Finished("run_par")
    /\ IsErr(ret)
    /\ w[1].st = "panicked" /\ w[2].st = "done"
    /\ Precedes("w1", "part1", "panic", "w2", "part2", "call")

\* C8: in an invocation of run_par, once parse has returned Ok and the
\* calling thread is past the spawns, both worker threads exist and there is
\* no other; no thread calls a part it was not spawned for; and when the
\* invocation has ended, part1 was called exactly once, by the first
\* worker, and part2 exactly once, by the second.
C8_TwoWorkers ==
    call = "run_par" =>
        /\ \A k \in DOMAIN log :
              log[k][2] \in {"part1", "part2"}
                  => \/ log[k][1] = "w1" /\ log[k][2] = "part1"
                     \/ log[k][1] = "w2" /\ log[k][2] = "part2"
        /\ Count("part1", "call") <= 1
        /\ Count("part2", "call") <= 1
        /\ (/\ LogHas("main", "parse", "ret")
            /\ pc \in {"join1", "join2", "scope_end", "idle"})
              => \A i \in Workers : w[i].st # "none"
        /\ (pc = "idle" /\ LogHas("main", "parse", "ret"))
              => /\ Count("part1", "call") = 1
                 /\ Count("part2", "call") = 1

\* run_par ended with an aggregate after both workers ran their part
C8_Witness ==
    /\ Finished("run_par")
    /\ IsOk(ret)
    /\ \A i \in Workers : w[i].st = "done" /\ w[i].joined
    /\ LogHas("w1", "part1", "ret") /\ LogHas("w2", "part2", "ret")

\* C9: an invocation of run, test_part1 or test_part2 never returns
\* SolutionError::Run, and get_input does not either.
C9_RunOnlyFromRunPar ==
    /\ call \in Fns \ {"run_par"} => ret # Err("Run")
    /\ get_input # Err("Run")

\* run ended by unwinding with the panic of part2, the case in which
\* run_par returns SolutionError::Run
C9_Witness ==
    /\ Finished("run")
    /\ LogHas("main", "part2", "panic")
    /\ ret = Panicked

\* the order of the operations of run
RunOrder ==
    << <<"get_input", "call">>, <<"get_input", "ret">>,
       <<"parse", "call">>, <<"parse", "ret">>,
       <<"part1", "call">>, <<"part1", "ret">>,
       <<"part2", "call">>, <<"part2", "ret">> >>

\* C10: the log of an invocation of run has entries of the calling thread
\* only; it is a prefix of get_input, parse, part1, part2, each called and
\* returned in turn, except that its last entry may be the error or the
\* panic that ended the invocation; and when part1 has returned, None
\* included, the invocation does not end before part2 was called.
C10_SequentialOrder ==
    call = "run" =>
        /\ Len(log) <= Len(RunOrder)
        /\ \A k \in DOMAIN log :
              /\ log[k][1] = "main"
              /\ log[k][2] = RunOrder[k][1]
              /\ \/ log[k][3] = RunOrder[k][2]
                 \/ /\ k = Len(log)
                    /\ pc = "idle"
                    /\ log[k][3] \in {"err", "panic"}
        /\ (pc = "idle" /\ LogHas("main", "part1", "ret"))
              => LogHas("main", "part2", "call")

\* run ended with Ok after part1 returned None and part2 Some answer
C10_Witness ==
    /\ Finished("run")
    /\ PartReturned("part1", None)
    /\ PartReturned("part2", Some(1))
    /\ IsOk(ret)
    /\ ret[2].part1 = None

\* C11: when run_par has ended after a spawn that failed, it returned
\* Err(SolutionError::Run), neither a panic nor an aggregate, and every
\* worker that did start has terminated.
C11_SpawnFailureIsRun ==
    (Finished("run_par") /\ \E i \in Workers : w[i].st = "failed") =>
        /\ ret = Err("Run")
        /\ \A i \in Workers : w[i].st \in {"none", "failed"} \/ Terminated(i)

\* C12: the report has the line "Part 1" exactly when part1 is Some and the
\* line "Part 2" exactly when part2 is Some, whatever the other answer is.
C12_LinePerPresentAnswer ==
    out # <<>> =>
        /\ HasLine("Part 1") <=> subject.part1 # None
        /\ HasLine("Part 2") <=> subject.part2 # None

\* C13: every report shows the three phase durations and a total equal to
\* parse_duration + part1_duration + part2_duration, whichever answers are
\* present.
C13_TotalOfAllPhases ==
    out # <<>> =>
        /\ HasLine("Parse Time") /\ HasLine("Time1") /\ HasLine("Time2")
        /\ HasLine("Total Time")
        /\ Shown("Total Time") = subject.parse_duration
                                  + subject.part1_duration
                                  + subject.part2_duration

\* the lines of a report that show the duration of one phase
PhaseLabels == {"Time1", "Time2", "Parse Time", "Parsing time"}

\* the sum of the phase durations that the lines `ls` show
RECURSIVE SumShown(_)
SumShown(ls) ==
    IF ls = <<>> THEN 0
    ELSE (IF ls[1][1] \in PhaseLabels THEN ReadDuration(ls[1][2]) ELSE 0)
         + SumShown(Tail(ls))

\* C14: no duration of a report is negative, each phase duration shown is
\* the one of the SolutionResult, and a report that has the line "Total
\* Time" shows there exactly the sum of the phase durations it shows.
C14_TotalIsSumOfShown ==
    out # <<>> =>
        /\ \A k \in DOMAIN out :
              out[k][1] \in PhaseLabels \cup {"Total Time"} =>
                  /\ \A j \in DOMAIN out[k][2] : out[k][2][j][1] >= 0
                  /\ ReadDuration(out[k][2]) >= 0
        /\ HasLine("Parse Time") =>
              Shown("Parse Time") = subject.parse_duration
        /\ HasLine("Time1") => Shown("Time1") = subject.part1_duration
        /\ HasLine("Time2") => Shown("Time2") = subject.part2_duration
        /\ HasLine("Total Time") => Shown("Total Time") = SumShown(out)

\* a report of a present part1 and an absent part2 whose phase took time:
\* it has a total, and part2's duration is neither shown nor counted
C14_Witness ==
    /\ out # <<>>
    /\ subject.part1 # None
    /\ subject.part2 = None
    /\ subject.part2_duration > 0
    /\ subject.part1_duration = Micro
    /\ subject.parse_duration = 1
    /\ HasLine("Total Time")
    /\ Shown("Total Time") = Micro + 1
    /\ ~HasLine("Time2")

\* the time between the call of `op` and its return, read from the log
Measured(op) ==
    LET j == CHOOSE j \in DOMAIN log : log[j][2] = op /\ log[j][3] = "call"
        k == CHOOSE k \in DOMAIN log : log[k][2] = op /\ log[k][3] = "ret"
    IN  log[k][5] - log[j][5]

\* C15: a SolutionResult returned by run or run_par has the three
\* durations; each phase was called and returned in this invocation and
\* its duration is the time between the two, also when the answer is None.
C15_DurationsMeasured ==
    \A f \in Runners :
        (Finished(f) /\ IsOk(ret)) =>
            /\ {"parse_duration", "part1_duration", "part2_duration"}
                  \subseteq DOMAIN ret[2]
            /\ \A op \in {"parse", "part1", "part2"} :
                  Count(op, "call") = 1 /\ Count(op, "ret") = 1
            /\ ret[2].parse_duration = Measured("parse")
            /\ ret[2].part1_duration = Measured("part1")
            /\ ret[2].part2_duration = Measured("part2")
            /\ ret[2].parse_duration >= 0
            /\ ret[2].part1_duration >= 0
            /\ ret[2].part2_duration >= 0

\* run_par returned an aggregate whose part2 is None and took time
C15_Witness ==
    /\ Finished("run_par")
    /\ IsOk(ret)
    /\ ret[2].part2 = None
    /\ ret[2].part2_duration > 0
    /\ ret[2].part2_duration = Measured("part2")

\* the raw input that parse was called with in the current invocation
ParseArg ==
    log[CHOOSE k \in DOMAIN log : log[k][2] = "parse" /\ log[k][3] = "call"][4]

\* C16: test_part1 and test_part2 never call get_input nor the other part
\* and call parse at most once, first of all; once ended they have called
\* parse exactly once, and either parse failed, the part was not called
\* and the parse error was returned, or the part was called once and what
\* was returned (if the part did not panic) is Ok of the part's answer on
\* the parsed input with the parse time plus the part's time.
C16_TestRunsOnePart ==
    \A n \in {1, 2} :
        call = TestName(n) =>
            /\ Count("get_input", "call") = 0
            /\ Count(PartName(3 - n), "call") = 0
            /\ Count("parse", "call") <= 1
            /\ Count(PartName(n), "call") <= 1
            /\ Count(PartName(n), "call") = 1 => LogHas("main", "parse", "ret")
            /\ pc = "idle" =>
                  /\ Count("parse", "call") = 1
                  /\ IF IsErr(parse[ParseArg])
                     THEN /\ Count(PartName(n), "call") = 0
                          /\ ret = parse[ParseArg]
                     ELSE /\ Count(PartName(n), "call") = 1
                          /\ \/ ret = Panicked
                                /\ Apply(PartName(n), parse[ParseArg][2]) = Panic
                             \/ ret = Ok(<<Apply(PartName(n),
                                                 parse[ParseArg][2]),
                                           Measured("parse")
                                           + Measured(PartName(n))>>)

\* test_part2 returned an answer with a duration that is parse's alone
C16_Witness ==
    /\ Finished("test_part2")
    /\ IsOk(ret)
    /\ ret[2][1] = Some(1)
    /\ ret[2][2] = 1
    /\ Measured("parse") = 1
    /\ Measured("part2") = 0

\* C17: time! enters its expression at most once; from the moment it has
\* its pair, the expression was entered and left exactly once, the first
\* component is the value it yielded, and nothing else than the locals of
\* the time! was touched: nothing printed, no thread spawned.
C17_EvaluatesOnce ==
    call = "time_macro" =>
        /\ Count("expr", "call") <= 1
        /\ Count("expr", "ret") <= Count("expr", "call")
        /\ out = <<>> /\ subject = <<>>
        /\ \A i \in Workers : w[i] = NoWorker
        /\ pc \in {"time_end", "outer_end", "assert", "idle"} =>
              /\ Count("expr", "call") = 1
              /\ Count("expr", "ret") = 1
              /\ loc.result = ExprValue
        /\ pc = "idle" => ret = Ok(<<>>)

\* the time! of the test has its pair: the value Some(1) of the expression
C17_Witness ==
    /\ call = "time_macro"
    /\ pc = "outer_end"
    /\ loc.result = Some(1)
    /\ ExprValue = Some(1)
    /\ loc.time > 0

\* C18: the duration that time! returned is at most the elapsed time of
\* the bracket of the test, read before the time! and after it.
C18_WithinOuterBracket ==
    (call = "time_macro" /\ pc \in {"assert", "idle"}) =>
        /\ 0 <= loc.time
        /\ loc.time <= loc.elapsed

\* the clock moved before, inside and after the time!: the bracket of the
\* test is strictly longer than the duration of the time!
C18_Witness ==
    /\ call = "time_macro"
    /\ pc = "assert"
    /\ loc.start > 0
    /\ loc.time > 0
    /\ loc.time < loc.elapsed

\* get_input returned what the claim says for the file read: the content,
\* or PuzzleInput wrapping the error of read_to_string
InputOutcome ==
    IF file = <<>>
    THEN /\ log[1][3] = "err"
         /\ ret = Err(<<"PuzzleInput", log[1][4]>>)
    ELSE ret = Ok(file[1])

\* C19 as stated: whatever DAY is, get_input opens "inputs/DAY_" NN ".txt"
\* with NN two decimal digits that read as DAY, and returns the content or
\* PuzzleInput wrapping the I/O error.
C19_TwoDigitPath ==
    call = "get_input" =>
        /\ out[1][1] = "inputs/DAY_" /\ out[1][3] = ".txt"
        /\ Len(out[1][2]) = 2
        /\ DigitsValue(out[1][2]) = subject
        /\ InputOutcome

\* C19: get_input opens "inputs/DAY_" N ".txt" where N is DAY in decimal,
\* padded with zeros to two digits when DAY < 100 and of three digits when
\* DAY >= 100, and returns the content or PuzzleInput wrapping the I/O
\* error.
C19_PaddedPath ==
    call = "get_input" =>
        /\ out[1][1] = "inputs/DAY_" /\ out[1][3] = ".txt"
        /\ Len(out[1][2]) = (IF subject < 100 THEN 2 ELSE 3)
        /\ \A k \in DOMAIN out[1][2] : out[1][2][k] \in 0..9
        /\ DigitsValue(out[1][2]) = subject
        /\ InputOutcome

\* DAY = 5, whose path is padded to "05", with no file there
C19_Witness ==
    /\ call = "get_input"
    /\ subject = 5
    /\ out = <<<<"inputs/DAY_", <<0, 5>>, ".txt">>>>
    /\ ret = Err(<<"PuzzleInput", "NotFound">>)

\* C20 as stated: what run and run_par call parse with is the content of
\* the file trimmed of its surrounding whitespace.
C20_TrimmedInput ==
    \A f \in Runners :
        (call = f /\ Count("parse", "call") = 1) =>
            ParseArg = trim(file[1])

\* C20: what run and run_par call parse with is the content of the file as
\* get_input returned it, surrounding whitespace included, the same in
\* both runners.
C20_InputAsAcquired ==
    \A f \in Runners :
        call = f =>
            /\ Count("parse", "call") <= 1
            /\ Count("parse", "call") = 1 => ParseArg = file[1]
            /\ (pc = "idle" /\ file # <<>>) => Count("parse", "call") = 1

\* run_par ended with ParseError: the file has whitespace around its text
\* and parse, which accepts the trimmed text only, was given all of it
C20_Witness ==
    /\ Finished("run_par")
    /\ file[1] # trim(file[1])
    /\ IsOk(parse[trim(file[1])])
    /\ ParseArg = file[1]
    /\ ret = Err("ParseError")

\* C21: solution! calls run_par at most once (one get_input, one of each
\* spawn) and never run; nothing is printed before run_par has returned;
\* once solution! has ended, run_par was called once and returned Ok or
\* Err, no panic left it, and what was printed is the report alone for Ok
\* and, for Err, the one line made of DAY, TITLE and the error's text.
C21_PrintsOneOutput ==
    call = "solution" =>
        /\ Count("get_input", "call") <= 1
        /\ \A k \in DOMAIN log :
              log[k][1] = "main" => log[k][2] \in {"get_input", "parse"}
        /\ pc # "idle" => out = <<>>
        /\ pc \in {"match", "idle"} =>
              /\ Count("get_input", "call") = 1
              /\ IsOk(ret) \/ IsErr(ret)
        /\ pc = "idle" =>
              /\ IsOk(ret) => out = fmt(ret[2])
              /\ IsErr(ret) =>
                    /\ Len(out) = 1
                    /\ out[1] = <<"Day", Digits(DAY), "-", TITLE, "Error:",
                                  ErrorText(ret[2])>>

\* solution! ended after a worker of its run_par panicked: it printed the
\* line of the Run error
C21_Witness ==
    /\ Finished("solution")
    /\ \E i \in Workers : w[i].st = "panicked"
    /\ ret = Err("Run")
    /\ out = <<<<"Day", <<0>>, "-", "Demo", "Error:",
                 "Error while running solution">>>>

\* the products of the entries of l at n pairwise different positions that
\* sum to Target
Products2(l) ==
    {l[i] * l[j] : <<i, j>> \in {h \in (DOMAIN l) \X (DOMAIN l) :
                                  h[1] # h[2] /\ l[h[1]] + l[h[2]] = Target}}
Products3(l) ==
    {l[h[1]] * l[h[2]] * l[h[3]] :
        h \in {h \in (DOMAIN l) \X (DOMAIN l) \X (DOMAIN l) :
                  /\ h[1] # h[2] /\ h[1] # h[3] /\ h[2] # h[3]
                  /\ l[h[1]] + l[h[2]] + l[h[3]] = Target}}

\* C22: part1 of Day01 is Some of the product of two entries at different
\* positions that sum to 2020, None when there are no such two; part2 the
\* same with three entries at pairwise different positions; the input of
\* the test gives Some(514579) and Some(241861950).
C22_Day01Answers ==
    IsOk(ret) =>
        LET input == ret[2][1]
            p1 == ret[2][2]
            p2 == ret[2][3]
        IN  /\ IF Products2(input) = {} THEN p1 = None
               ELSE p1 \in {Some(x) : x \in Products2(input)}
            /\ IF Products3(input) = {} THEN p2 = None
               ELSE p2 \in {Some(x) : x \in Products3(input)}
            /\ subject = ScenarioA =>
                  p1 = Some(514579) /\ p2 = Some(241861950)

\* the product of the numbers of l, of any size, in halves
RECURSIVE Product(_)
Product(l) ==
    IF l = <<>> THEN Halves(1)
    ELSE Norm(MulAdd(Product(SubSeq(l, 1, Len(l) - 1)), l[Len(l)], 0))

AllDigits == \A k \in DOMAIN subject : subject[k] \in 0..9

At(t, op, e) ==
    log[CHOOSE k \in DOMAIN log :
            log[k][1] = t /\ log[k][2] = op /\ log[k][3] = e][5]

\* C24: when run_par has returned a SolutionResult, part1_duration is the
\* time between the part1 worker's own entry into part1 and its return from
\* it, and part2_duration likewise for the part2 worker; each bracket opens
\* after parse has returned and closes at the part's return, so it holds no
\* parse time, no time spent before the join, and nothing of the other
\* worker's bracket.
C24_OwnBracket ==
    (Finished("run_par") /\ IsOk(ret)) =>
        /\ ret[2].part1_duration
              = At("w1", "part1", "ret") - At("w1", "part1", "call")
        /\ ret[2].part2_duration
              = At("w2", "part2", "ret") - At("w2", "part2", "call")
        /\ \A i \in Workers :
              /\ At("main", "parse", "ret")
                    <= At(WName(i), WorkerPart(i), "call")
              /\ At(WName(i), WorkerPart(i), "ret") <= now
              /\ w[i].res[2] = At(WName(i), WorkerPart(i), "ret")
                                  - At(WName(i), WorkerPart(i), "call")

\* the part1 worker ran to its end in no time, then the part2 worker took
\* time: part1_duration holds nothing of it
C24_Witness ==
    /\ Finished("run_par")
    /\ IsOk(ret)
    /\ Precedes("w1", "part1", "ret", "w2", "part2", "call")
    /\ ret[2].part1_duration = 0
    /\ ret[2].part2_duration = MaxTime
    /\ now = MaxTime

\* C25: when run_par has returned a SolutionResult, its part1 and
\* part1_duration are the answer and the duration that the part1 worker
\* produced, its part2 and part2_duration those of the part2 worker, in
\* whichever order the workers started and ended.
C25_FieldsOfOwnWorker ==
    (Finished("run_par") /\ IsOk(ret)) =>
        /\ ret[2].part1 = w[1].res[1]
        /\ ret[2].part1_duration = w[1].res[2]
        /\ ret[2].part2 = w[2].res[1]
        /\ ret[2].part2_duration = w[2].res[2]
        /\ \E k \in DOMAIN log :
              /\ log[k][1] = "w1" /\ log[k][2] = "part1"
              /\ log[k][3] = "ret" /\ log[k][4] = ret[2].part1
        /\ \E k \in DOMAIN log :
              /\ log[k][1] = "w2" /\ log[k][2] = "part2"
              /\ log[k][3] = "ret" /\ log[k][4] = ret[2].part2
        /\ ret[2].part1 = part1[w[1].input]
        /\ ret[2].part2 = part2[w[2].input]

\* the part2 worker ended before the part1 worker started, and the two
\* workers differ in answer and in duration
C25_Witness ==
    /\ Finished("run_par")
    /\ IsOk(ret)
    /\ Precedes("w2", "part2", "ret", "w1", "part1", "call")
    /\ ret[2].part1 = None
    /\ ret[2].part2 # None
    /\ ret[2].part1_duration = MaxTime
    /\ ret[2].part2_duration = 0

\* C26: under fair scheduling of the caller and of the two workers, with
\* get_input, parse, part1 and part2 each coming to an end, every
\* invocation of run_par that has started eventually comes back with an
\* outcome: it does not wait forever at a join, whatever the interleaving.
C26_RunParReturns ==
    (call = "run_par" /\ pc # "idle")
        ~> (call = "run_par" /\ pc = "idle" /\ ret # NotReturned)

\* run_par came back after the part2 worker panicked before the part1
\* worker, which the first join waited for, had even started
C26_Witness ==
    /\ Finished("run_par")
    /\ ret = Err("Run")
    /\ \A i \in Workers : w[i].joined
    /\ Precedes("w2", "part2", "panic", "w1", "part1", "call")
    /\ LogHas("w1", "part1", "ret")

====
